---- MODULE Spec2Model ----
(***************************************************************************)
(* Model of the default-VPC removal scripts.                               *)
(*                                                                         *)
(*   remove-vpc.py  (V1)  main(profile, region) on one region, every call  *)
(*                        unconditional                                    *)
(*   remove_vpc.py  (V2)  line 82 reads "if (dryrun != True): = ec2.       *)
(*                        delete_route_table(...)", which is not a         *)
(*                        statement: the interpreter rejects the file with *)
(*                        a SyntaxError before it runs any line of it, so  *)
(*                        the only behaviour of this script is that error  *)
(*                                                                         *)
(* One step of the region's processing is one cloud call together with the *)
(* Python code that follows it up to the next call.  The cloud is part of  *)
(* the state: what each region holds (cloud) and which calls the provider  *)
(* rejects with a ClientError (faults) are fixed by Init, so every         *)
(* behaviour is a script's run against one environment.                    *)
(***************************************************************************)
EXTENDS Integers, Sequences, FiniteSets, TLC

\* Bounds of the model
NumRegions == 2      \* regions of the account
MaxRes     == 2      \* resources of one kind in one region
MaxAssoc   == 2      \* associations of one route table
MaxFaults  == 2      \* calls the provider rejects in one region

V1 == "remove-vpc.py"
V2 == "remove_vpc.py"

Regions == 1..NumRegions

\* region = 'us-west-2', the region remove-vpc.py is run on
UsWest2 == 1

DefaultVpc == "vpc-default"
OtherVpc   == "vpc-other"
NoneVpc    == "none"

VARIABLES
  variant,     \* which script runs
  argv,        \* sys.argv
  dryrun,      \* remove_vpc.py global, "unbound" while line 14 has not run
  pcMain,      \* position of the main thread
  cloud,       \* region -> resources
  cloud0,      \* cloud at the start of the run (history)
  faults,      \* region -> rejected calls <<op, id>>
  pc,          \* region -> position <<function, step>>
  vpc_id,      \* region -> local vpc_id
  eni,         \* region -> local eni
  listing,     \* region -> local igw / subs / rtbs / acls / sgps
  idx,         \* region -> position of the for loop in listing
  calls,       \* region -> cloud calls issued, in order
  out,         \* region (0: outside main) -> lines written to stdout / stderr
  result,      \* region -> how the processing ended
  run,         \* which run of the script this is: 1, or 2 for a run after it
  prev         \* what the run before this one did (history)

vars == <<variant, argv, dryrun, pcMain, cloud, cloud0, faults, pc, vpc_id, eni,
          listing, idx, calls, out, result, run, prev>>

envVars == <<variant, argv, cloud0, faults, run, prev>>

----------------------------------------------------------------------------
\* Python values, as far as == needs them

PyStr(s)  == [type |-> "str",  val |-> s]
PyBool(b) == [type |-> "bool", val |-> b]

\* a == b : a str never equals a bool
PyEq(a, b) == a.type = b.type /\ a.val = b.val

----------------------------------------------------------------------------
\* The cloud

NoId == 0

SeqsUpTo(S, n) == UNION {[1..k -> S] : k \in 0..n}

Range(s) == {s[i] : i \in DOMAIN s}

\* mutant: the list calls made without the filter
FilterNothing(s, v) == s

\* Filters = [{'Name': 'vpc-id' | 'attachment.vpc-id', 'Values': [vpc_id]}]
FilterVpc(s, v) == SelectSeq(s, LAMBDA x : x.VpcId = v)

WithoutId(s, field, id) == SelectSeq(s, LAMBDA x : x[field] # id)

CloudFails(r, op, id) == <<op, id>> \in faults[r]

AttrOf(v) == <<[AttributeValues |-> <<[AttributeValue |-> v]>>]>>

\* detach_internet_gateway succeeded
AfterDetach(c, id) ==
  [c EXCEPT !.igws = [i \in DOMAIN @ |->
      IF @[i].InternetGatewayId = id THEN [@[i] EXCEPT !.VpcId = ""] ELSE @[i]]]

\* delete_vpc succeeded: the VPC goes with what the provider created for it,
\* and a deleted default VPC makes the account attribute read "none"
AfterDeleteVpc(c, v) ==
  [attribs |-> IF c.attribs = AttrOf(v) THEN AttrOf(NoneVpc) ELSE c.attribs,
   enis    |-> c.enis,
   igws    |-> c.igws,
   subs    |-> c.subs,
   rtbs    |-> SelectSeq(c.rtbs, LAMBDA x : x.VpcId # v),
   acls    |-> SelectSeq(c.acls, LAMBDA x : x.VpcId # v),
   sgps    |-> SelectSeq(c.sgps, LAMBDA x : x.VpcId # v)]

----------------------------------------------------------------------------
\* Shared pieces of the region processing

Call(op, id, v) == [op |-> op, id |-> id, vpc |-> v]
Line(msg, id, v) == [msg |-> msg, id |-> id, vpc |-> v]

Returned == <<"end", "returned">>
Raised   == <<"end", "raised">>

\* mutant: delete_subnet called outside a try
CatchesAllButSubnet(op) == op # "delete_subnet"

\* every detach/delete call sits in its own try / except ClientError
CatchesClientError(op) == TRUE

\* mutant: delete_rtbs called before delete_subs
StageAfterSwapped(k) ==
  CASE k = "gate" -> "igw"
    [] k = "igw"  -> "rtbs"
    [] k = "rtbs" -> "subs"
    [] k = "subs" -> "acls"
    [] k = "acls" -> "sgps"
    [] k = "sgps" -> "vpc"

\* the fixed order of the calls at the end of the region processor
StageAfter(k) ==
  CASE k = "gate" -> "igw"
    [] k = "igw"  -> "subs"
    [] k = "subs" -> "rtbs"
    [] k = "rtbs" -> "acls"
    [] k = "acls" -> "sgps"
    [] k = "sgps" -> "vpc"

EntryOf(k) == IF k = "vpc" THEN <<"vpc", "delete">> ELSE <<k, "describe">>

\* mutant: the result of the interface query ignored
GateNeverBlocks(e) == FALSE

\* "if eni:" , the region is left alone
GateBlocks(e) == Len(e) > 0

\* the value of `main` after "for assoc in rtb['Associations']"
LastMain(assocs) ==
  IF Len(assocs) = 0 THEN PyStr("false") ELSE PyBool(assocs[Len(assocs)].Main)

\* "if main == True: continue"
RtbSkipped(rtb) == PyEq(LastMain(rtb.Associations), PyBool(TRUE))

\* mutant: IsDefault compared with a string
AclSkippedAsString(acl) == PyEq(PyBool(acl.IsDefault), PyStr("true"))

\* "if default == True: continue"
AclSkipped(acl) == PyEq(PyBool(acl.IsDefault), PyBool(TRUE))

\* "if default == 'default': continue"
SgpSkipped(sgp) == PyEq(PyStr(sgp.GroupName), PyStr("default"))

\* mutant: the id read from the attribute used whatever it says
AttrOutcomeAnyId(attribs) ==
  IF Len(attribs) = 0
    THEN [kind |-> "IndexError", vpc |-> ""]
  ELSE IF Len(attribs[1].AttributeValues) = 0
    THEN [kind |-> "IndexError", vpc |-> ""]
  ELSE [kind |-> "go", vpc |-> attribs[1].AttributeValues[1].AttributeValue]

\* what main does with the account attributes it got:
\* vpc_id = attribs[0]['AttributeValues'][0]['AttributeValue'], if vpc_id == 'none'
AttrOutcome(attribs) ==
  IF Len(attribs) = 0
    THEN [kind |-> "IndexError", vpc |-> ""]
  ELSE IF Len(attribs[1].AttributeValues) = 0
    THEN [kind |-> "IndexError", vpc |-> ""]
  ELSE LET id == attribs[1].AttributeValues[1].AttributeValue
       IN  IF id = NoneVpc
             THEN [kind |-> "skip", vpc |-> id]
             ELSE [kind |-> "go", vpc |-> id]

Say(r, lines) == out' = [out EXCEPT ![r] = @ \o lines]
Issue(r, cs)  == calls' = [calls EXCEPT ![r] = @ \o cs]
Goto(r, p)    == pc' = [pc EXCEPT ![r] = p]
End(r, p, how) ==
  /\ pc' = [pc EXCEPT ![r] = p]
  /\ result' = [result EXCEPT ![r] = how]

mainVars == <<dryrun, pcMain>>

\* main(profile, region) is being executed
Alive == pcMain = "running"

At(r, p) == Alive /\ pc[r] = p

\* the list call of one deleter, and the "if <list>:" after it
DescribeStep(r, op, found, first, k) ==
  /\ Issue(r, <<Call(op, NoId, vpc_id[r])>>)
  /\ IF CloudFails(r, op, NoId)
       THEN \* the handler prints; the list variable was never bound
            /\ Say(r, <<Line("error", NoId, op)>>)
            /\ End(r, Raised, "UnboundLocalError")
            /\ UNCHANGED <<listing, idx>>
       ELSE /\ listing' = [listing EXCEPT ![r] = found]
            /\ idx' = [idx EXCEPT ![r] = 1]
            /\ Goto(r, IF Len(found) = 0 THEN EntryOf(StageAfter(k)) ELSE first)
            /\ UNCHANGED <<out, result>>
  /\ UNCHANGED <<envVars, mainVars, cloud, vpc_id, eni>>

\* one detach/delete call inside its try; the handler prints the message
Attempt(r, op, id, v, cloudAfter, nextPc, nextIdx) ==
  LET fails == CloudFails(r, op, id)
  IN  /\ Say(r, IF fails THEN <<Line("error", id, op)>> ELSE <<>>)
      /\ Issue(r, <<Call(op, id, v)>>)
      /\ cloud' = IF fails THEN cloud ELSE [cloud EXCEPT ![r] = cloudAfter]
      /\ IF fails /\ ~CatchesClientError(op)
           THEN /\ End(r, Raised, "ClientError")
                /\ UNCHANGED idx
           ELSE /\ Goto(r, nextPc)
                /\ idx' = [idx EXCEPT ![r] = nextIdx]
                /\ UNCHANGED result
      /\ UNCHANGED <<envVars, mainVars, vpc_id, eni, listing>>

\* "continue"
Skip(r, nextPc) ==
  /\ Goto(r, nextPc)
  /\ idx' = [idx EXCEPT ![r] = @ + 1]
  /\ UNCHANGED <<envVars, mainVars, cloud, vpc_id, eni, listing, calls, out, result>>

LoopNext(r, k) ==
  IF idx[r] = Len(listing[r]) THEN EntryOf(StageAfter(k)) ELSE <<k, "loop">>

----------------------------------------------------------------------------
\* The region processor: main(profile, region) of remove-vpc.py

\* boto3.Session(profile_name=profile); session.client('ec2', region_name=region)
OpenClient(r) ==
  /\ At(r, <<"task", "start">>)
  /\ IF CloudFails(r, "client", NoId)
       THEN End(r, Raised, "BotoCoreError")
       ELSE Goto(r, <<"attr", "describe">>) /\ UNCHANGED result
  /\ UNCHANGED <<envVars, mainVars, cloud, vpc_id, eni, listing, idx, calls, out>>

\* ec2.describe_account_attributes(AttributeNames=['default-vpc']) and the
\* reading of the default VPC's id
DescribeAccountAttributes(r) ==
  /\ At(r, <<"attr", "describe">>)
  /\ Issue(r, <<Call("describe_account_attributes", NoId, "")>>)
  /\ IF CloudFails(r, "describe_account_attributes", NoId)
       THEN /\ Say(r, <<Line("error", NoId, "describe_account_attributes")>>)
            /\ End(r, Returned, "failed")
            /\ UNCHANGED vpc_id
       ELSE LET o == AttrOutcome(cloud[r].attribs)
            IN  IF o.kind = "IndexError"
                  THEN /\ End(r, Raised, "IndexError")
                       /\ UNCHANGED <<out, vpc_id>>
                ELSE IF o.kind = "skip"
                  THEN /\ Say(r, <<Line("not found", r, "")>>)
                       /\ End(r, Returned, "skipped-no-vpc")
                       /\ vpc_id' = [vpc_id EXCEPT ![r] = o.vpc]
                ELSE   /\ Goto(r, <<"gate", "describe">>)
                       /\ vpc_id' = [vpc_id EXCEPT ![r] = o.vpc]
                       /\ UNCHANGED <<out, result>>
  /\ UNCHANGED <<envVars, mainVars, cloud, eni, listing, idx>>

\* mutant: a failed interface query taken as "no interfaces"
DescribeNetworkInterfacesFailOpen(r) ==
  /\ At(r, <<"gate", "describe">>)
  /\ Issue(r, <<Call("describe_network_interfaces", NoId, vpc_id[r])>>)
  /\ LET found == IF CloudFails(r, "describe_network_interfaces", NoId)
                    THEN <<>>
                    ELSE FilterVpc(cloud[r].enis, vpc_id[r])
     IN  /\ eni' = [eni EXCEPT ![r] = found]
         /\ IF GateBlocks(found)
              THEN /\ Say(r, <<Line("existing resources", NoId, vpc_id[r])>>)
                   /\ End(r, Returned, "skipped-in-use")
              ELSE /\ Goto(r, EntryOf(StageAfter("gate")))
                   /\ UNCHANGED <<out, result>>
  /\ UNCHANGED <<envVars, mainVars, cloud, vpc_id, listing, idx>>

\* the check for existing resources: ec2.describe_network_interfaces
DescribeNetworkInterfaces(r) ==
  /\ At(r, <<"gate", "describe">>)
  /\ Issue(r, <<Call("describe_network_interfaces", NoId, vpc_id[r])>>)
  /\ IF CloudFails(r, "describe_network_interfaces", NoId)
       THEN /\ Say(r, <<Line("error", NoId, "describe_network_interfaces")>>)
            /\ End(r, Returned, "failed")
            /\ UNCHANGED eni
       ELSE LET found == FilterVpc(cloud[r].enis, vpc_id[r])
            IN  /\ eni' = [eni EXCEPT ![r] = found]
                /\ IF GateBlocks(found)
                     THEN /\ Say(r, <<Line("existing resources", NoId, vpc_id[r])>>)
                          /\ End(r, Returned, "skipped-in-use")
                     ELSE /\ Goto(r, EntryOf(StageAfter("gate")))
                          /\ UNCHANGED <<out, result>>
  /\ UNCHANGED <<envVars, mainVars, cloud, vpc_id, listing, idx>>

\* mutant: delete_igw without the detach
delete_igw_describe_nodetach(r) ==
  /\ At(r, <<"igw", "describe">>)
  /\ DescribeStep(r, "describe_internet_gateways",
                  FilterVpc(cloud[r].igws, vpc_id[r]), <<"igw", "delete">>, "igw")

\* delete_igw
delete_igw_describe(r) ==
  /\ At(r, <<"igw", "describe">>)
  /\ DescribeStep(r, "describe_internet_gateways",
                  FilterVpc(cloud[r].igws, vpc_id[r]), <<"igw", "detach">>, "igw")

delete_igw_detach(r) ==
  /\ At(r, <<"igw", "detach">>)
  /\ LET igw_id == listing[r][1].InternetGatewayId
     IN  Attempt(r, "detach_internet_gateway", igw_id, vpc_id[r],
                 AfterDetach(cloud[r], igw_id), <<"igw", "delete">>, idx[r])

delete_igw_delete(r) ==
  /\ At(r, <<"igw", "delete">>)
  /\ LET igw_id == listing[r][1].InternetGatewayId
     IN  Attempt(r, "delete_internet_gateway", igw_id, "",
                 [cloud[r] EXCEPT !.igws = WithoutId(@, "InternetGatewayId", igw_id)],
                 EntryOf(StageAfter("igw")), idx[r])

\* delete_subs
delete_subs_describe(r) ==
  /\ At(r, <<"subs", "describe">>)
  /\ DescribeStep(r, "describe_subnets",
                  FilterVpc(cloud[r].subs, vpc_id[r]), <<"subs", "loop">>, "subs")

delete_subs_loop(r) ==
  /\ At(r, <<"subs", "loop">>)
  /\ LET sub_id == listing[r][idx[r]].SubnetId
     IN  Attempt(r, "delete_subnet", sub_id, "",
                 [cloud[r] EXCEPT !.subs = WithoutId(@, "SubnetId", sub_id)],
                 LoopNext(r, "subs"), idx[r] + 1)

\* delete_rtbs
delete_rtbs_describe(r) ==
  /\ At(r, <<"rtbs", "describe">>)
  /\ DescribeStep(r, "describe_route_tables",
                  FilterVpc(cloud[r].rtbs, vpc_id[r]), <<"rtbs", "loop">>, "rtbs")

delete_rtbs_loop(r) ==
  /\ At(r, <<"rtbs", "loop">>)
  /\ LET rtb == listing[r][idx[r]]
     IN  IF RtbSkipped(rtb)
           THEN Skip(r, LoopNext(r, "rtbs"))
           ELSE Attempt(r, "delete_route_table", rtb.RouteTableId, "",
                        [cloud[r] EXCEPT !.rtbs = WithoutId(@, "RouteTableId", rtb.RouteTableId)],
                        LoopNext(r, "rtbs"), idx[r] + 1)

\* delete_acls
delete_acls_describe(r) ==
  /\ At(r, <<"acls", "describe">>)
  /\ DescribeStep(r, "describe_network_acls",
                  FilterVpc(cloud[r].acls, vpc_id[r]), <<"acls", "loop">>, "acls")

\* mutant: delete_acls done after the first ACL it calls delete for
delete_acls_loop_first_only(r) ==
  /\ At(r, <<"acls", "loop">>)
  /\ LET acl == listing[r][idx[r]]
     IN  IF AclSkipped(acl)
           THEN Skip(r, LoopNext(r, "acls"))
           ELSE Attempt(r, "delete_network_acl", acl.NetworkAclId, "",
                        [cloud[r] EXCEPT !.acls = WithoutId(@, "NetworkAclId", acl.NetworkAclId)],
                        EntryOf(StageAfter("acls")), idx[r] + 1)

delete_acls_loop(r) ==
  /\ At(r, <<"acls", "loop">>)
  /\ LET acl == listing[r][idx[r]]
     IN  IF AclSkipped(acl)
           THEN Skip(r, LoopNext(r, "acls"))
           ELSE Attempt(r, "delete_network_acl", acl.NetworkAclId, "",
                        [cloud[r] EXCEPT !.acls = WithoutId(@, "NetworkAclId", acl.NetworkAclId)],
                        LoopNext(r, "acls"), idx[r] + 1)

\* delete_sgps
delete_sgps_describe(r) ==
  /\ At(r, <<"sgps", "describe">>)
  /\ DescribeStep(r, "describe_security_groups",
                  FilterVpc(cloud[r].sgps, vpc_id[r]), <<"sgps", "loop">>, "sgps")

delete_sgps_loop(r) ==
  /\ At(r, <<"sgps", "loop">>)
  /\ LET sgp == listing[r][idx[r]]
     IN  IF SgpSkipped(sgp)
           THEN Skip(r, LoopNext(r, "sgps"))
           ELSE Attempt(r, "delete_security_group", sgp.GroupId, "",
                        [cloud[r] EXCEPT !.sgps = WithoutId(@, "GroupId", sgp.GroupId)],
                        LoopNext(r, "sgps"), idx[r] + 1)

\* mutant: the report printed after the try, whether or not the call failed
delete_vpc_reports_always(r) ==
  /\ At(r, <<"vpc", "delete">>)
  /\ LET fails == CloudFails(r, "delete_vpc", NoId)
     IN  /\ Say(r, (IF fails THEN <<Line("error", NoId, "delete_vpc")>> ELSE <<>>)
                   \o <<Line("has been deleted", r, vpc_id[r])>>)
         /\ Issue(r, <<Call("delete_vpc", NoId, vpc_id[r])>>)
         /\ cloud' = IF fails THEN cloud ELSE [cloud EXCEPT ![r] = AfterDeleteVpc(@, vpc_id[r])]
         /\ End(r, Returned, "completed")
  /\ UNCHANGED <<envVars, mainVars, vpc_id, eni, listing, idx>>

\* delete_vpc: try / except ClientError / else: print(... has been deleted ...)
delete_vpc(r) ==
  /\ At(r, <<"vpc", "delete">>)
  /\ LET fails == CloudFails(r, "delete_vpc", NoId)
     IN  /\ Say(r, <<IF fails THEN Line("error", NoId, "delete_vpc")
                              ELSE Line("has been deleted", r, vpc_id[r])>>)
         /\ Issue(r, <<Call("delete_vpc", NoId, vpc_id[r])>>)
         /\ cloud' = IF fails THEN cloud ELSE [cloud EXCEPT ![r] = AfterDeleteVpc(@, vpc_id[r])]
         /\ IF fails /\ ~CatchesClientError("delete_vpc")
              THEN End(r, Raised, "ClientError")
              ELSE End(r, Returned, "completed")
  /\ UNCHANGED <<envVars, mainVars, vpc_id, eni, listing, idx>>

----------------------------------------------------------------------------
\* The scripts

Main == 0

\* remove-vpc.py: main(profile = 'My_AWS_Profile', region = 'us-west-2')
ScriptEntryV1 ==
  /\ variant = V1
  /\ pcMain = "init"
  /\ pcMain' = "running"
  /\ pc' = [pc EXCEPT ![UsWest2] = <<"task", "start">>]
  /\ UNCHANGED <<envVars, dryrun, cloud, vpc_id, eni, listing, idx, calls, out, result>>

\* remove-vpc.py: main returns, or the exception of the processing leaves it
\* and the interpreter reports it (the traceback, ending with the exception)
MainReturnV1 ==
  /\ variant = V1
  /\ pcMain = "running"
  /\ pc[UsWest2][1] = "end"
  /\ pcMain' = IF pc[UsWest2] = Raised THEN "raised" ELSE "done"
  /\ Say(Main, IF pc[UsWest2] = Raised
                 THEN <<Line(result[UsWest2], NoId, V1)>>
                 ELSE <<>>)
  /\ UNCHANGED <<envVars, dryrun, cloud, pc, vpc_id, eni, listing, idx,
                 calls, result>>

\* remove_vpc.py: the file is compiled before any of it runs, and line 82 is
\* rejected; the process ends with the SyntaxError, no line was executed
CompileFailsV2 ==
  /\ variant = V2
  /\ pcMain = "init"
  /\ pcMain' = "raised"
  /\ Say(Main, <<Line("SyntaxError", NoId, V2)>>)
  /\ UNCHANGED <<envVars, dryrun, cloud, pc, vpc_id, eni, listing, idx, calls, result>>

----------------------------------------------------------------------------
\* The environments the run starts in

D == DefaultVpc
O == OtherVpc

Eni(i, v)    == [NetworkInterfaceId |-> i, VpcId |-> v]
Igw(i, v)    == [InternetGatewayId |-> i, VpcId |-> v]
Sub(i, v)    == [SubnetId |-> i, VpcId |-> v]
Rtb(i, v, a) == [RouteTableId |-> i, VpcId |-> v, Associations |-> a]
Acl(i, v, d) == [NetworkAclId |-> i, VpcId |-> v, IsDefault |-> d]
Sgp(i, v, n) == [GroupId |-> i, VpcId |-> v, GroupName |-> n]

\* a default VPC as the provider makes it, plus one custom resource per kind
FullCloud ==
  [attribs |-> AttrOf(D),
   enis    |-> <<>>,
   igws    |-> <<Igw(1, D)>>,
   subs    |-> <<Sub(1, D), Sub(2, D)>>,
   rtbs    |-> <<Rtb(1, D, <<[Main |-> TRUE]>>), Rtb(2, D, <<[Main |-> FALSE]>>)>>,
   acls    |-> <<Acl(1, D, TRUE), Acl(2, D, FALSE)>>,
   sgps    |-> <<Sgp(1, D, "default"), Sgp(2, D, "custom")>>]

AttribChoices ==
  {<<>>, <<[AttributeValues |-> <<>>]>>, AttrOf(NoneVpc), AttrOf(D)}

AssocLists == {[i \in DOMAIN g |-> [Main |-> g[i]]] : g \in SeqsUpTo(BOOLEAN, MaxAssoc)}

EniLists == {[i \in DOMAIN f |-> Eni(i, f[i])] : f \in SeqsUpTo({D, O}, MaxRes)}
IgwLists == {[i \in DOMAIN f |-> Igw(i, f[i])] : f \in SeqsUpTo({D, O, ""}, MaxRes)}
SubLists == {[i \in DOMAIN f |-> Sub(i, f[i])] : f \in SeqsUpTo({D, O}, MaxRes)}
RtbLists == {[i \in DOMAIN f |-> Rtb(i, D, f[i])] : f \in SeqsUpTo(AssocLists, MaxRes)}
AclLists == {[i \in DOMAIN f |-> Acl(i, f[i][2], f[i][1])] :
               f \in SeqsUpTo(BOOLEAN \X {D, O}, MaxRes)}
SgpLists == {[i \in DOMAIN f |-> Sgp(i, f[i][2], f[i][1])] :
               f \in SeqsUpTo({"default", "custom"} \X {D, O}, MaxRes)}

\* one part of the cloud varied at a time over the full default VPC
Clouds ==
  {[FullCloud EXCEPT !.attribs = a, !.enis = e] : a \in AttribChoices, e \in EniLists}
  \cup {[FullCloud EXCEPT !.igws = x] : x \in IgwLists}
  \cup {[FullCloud EXCEPT !.subs = x] : x \in SubLists}
  \cup {[FullCloud EXCEPT !.rtbs = x] : x \in RtbLists}
  \cup {[FullCloud EXCEPT !.acls = x] : x \in AclLists}
  \cup {[FullCloud EXCEPT !.sgps = x] : x \in SgpLists}

\* the calls a run on FullCloud can make
FaultPoints ==
  {<<op, NoId>> : op \in {"client", "describe_account_attributes",
      "describe_network_interfaces", "describe_internet_gateways",
      "describe_subnets", "describe_route_tables", "describe_network_acls",
      "describe_security_groups", "delete_vpc"}}
  \cup {<<op, 1>> : op \in {"detach_internet_gateway", "delete_internet_gateway"}}
  \cup {<<op, i>> : op \in {"delete_subnet", "delete_route_table",
                            "delete_network_acl", "delete_security_group"},
                    i \in 1..2}

FaultSets == {F \in SUBSET FaultPoints : Cardinality(F) <= MaxFaults}

RegionCases ==
  {[cloud |-> c, faults |-> {}] : c \in Clouds}
  \cup {[cloud |-> FullCloud, faults |-> F] : F \in FaultSets}

Prog == PyStr("prog")
Prof == PyStr("profile")
Flags == {"True", "False", "true", "1"}

\* the command lines remove_vpc.py is started with
Argvs ==
  {<<Prog>>, <<Prog, Prof>>, <<Prog, Prof, PyStr("True"), PyStr("x")>>}
  \cup {<<Prog, Prof, PyStr(f)>> : f \in Flags}

\* a run of variant v with arguments a; c is what the region of main holds and
\* which of its calls are rejected, every other region holds a full default VPC
OneRegion(v, a, c) ==
  [variant |-> v, argv |-> a,
   cloud  |-> [r \in Regions |-> IF r = UsWest2 THEN c.cloud ELSE FullCloud],
   faults |-> [r \in Regions |-> IF r = UsWest2 THEN c.faults ELSE {}]]

Scenarios ==
  {OneRegion(V1, <<Prog>>, c) : c \in RegionCases}
  \cup {OneRegion(V2, a, [cloud |-> FullCloud, faults |-> {}]) : a \in Argvs}

NoRun ==
  [calls   |-> [r \in Regions |-> <<>>],
   out     |-> [r \in {Main} \cup Regions |-> <<>>],
   result  |-> [r \in Regions |-> "running"]]

\* the script has ended and is started once more with the same arguments, on
\* the cloud as the first run left it: a new process, every local is new
Rerun ==
  /\ pcMain \in {"done", "raised"}
  /\ run = 1
  /\ run' = 2
  /\ prev' = [calls |-> calls, out |-> out, result |-> result]
  /\ cloud0' = cloud
  /\ pcMain' = "init"
  /\ pc' = [r \in Regions |-> <<"task", "idle">>]
  /\ vpc_id' = [r \in Regions |-> ""]
  /\ eni' = [r \in Regions |-> <<>>]
  /\ listing' = [r \in Regions |-> <<>>]
  /\ idx' = [r \in Regions |-> 1]
  /\ calls' = [r \in Regions |-> <<>>]
  /\ out' = [r \in {Main} \cup Regions |-> <<>>]
  /\ result' = [r \in Regions |-> "running"]
  /\ UNCHANGED <<variant, argv, dryrun, cloud, faults>>

Init ==
  /\ \E s \in Scenarios :
       /\ variant = s.variant
       /\ argv = s.argv
       /\ cloud = s.cloud
       /\ cloud0 = s.cloud
       /\ faults = s.faults
  /\ dryrun = "unbound"    \* remove_vpc.py line 14 has not run; remove-vpc.py has no toggle
  /\ pcMain = "init"
  /\ pc = [r \in Regions |-> <<"task", "idle">>]
  /\ vpc_id = [r \in Regions |-> ""]
  /\ eni = [r \in Regions |-> <<>>]
  /\ listing = [r \in Regions |-> <<>>]
  /\ idx = [r \in Regions |-> 1]
  /\ calls = [r \in Regions |-> <<>>]
  /\ out = [r \in {Main} \cup Regions |-> <<>>]
  /\ result = [r \in Regions |-> "running"]
  /\ run = 1
  /\ prev = NoRun

Next ==
  \/ ScriptEntryV1
  \/ MainReturnV1
  \/ CompileFailsV2
  \/ Rerun
  \/ \E r \in Regions :
       \/ OpenClient(r)
       \/ DescribeAccountAttributes(r)
       \/ DescribeNetworkInterfaces(r)
       \/ delete_igw_describe(r)
       \/ delete_igw_detach(r)
       \/ delete_igw_delete(r)
       \/ delete_subs_describe(r)
       \/ delete_subs_loop(r)
       \/ delete_rtbs_describe(r)
       \/ delete_rtbs_loop(r)
       \/ delete_acls_describe(r)
       \/ delete_acls_loop(r)
       \/ delete_sgps_describe(r)
       \/ delete_sgps_loop(r)
       \/ delete_vpc(r)

Spec == Init /\ [][Next]_vars

----------------------------------------------------------------------------
\* Vocabulary of the properties

MutatingOps ==
  {"detach_internet_gateway", "delete_internet_gateway", "delete_subnet",
   "delete_route_table", "delete_network_acl", "delete_security_group", "delete_vpc"}

DeleterListOps ==
  {"describe_internet_gateways", "describe_subnets", "describe_route_tables",
   "describe_network_acls", "describe_security_groups"}

OpsOf(r) == {calls[r][i].op : i \in DOMAIN calls[r]}

\* the ids a region's calls of one kind were made for
Targets(r, op) == {calls[r][i].id : i \in {j \in DOMAIN calls[r] : calls[r][j].op = op}}

MutatingCalls(r) == SelectSeq(calls[r], LAMBDA c : c.op \in MutatingOps)

Ended(r) == pc[r][1] = "end"

\* the deleters were reached: the first of them has listed
GatePassed(r) == "describe_internet_gateways" \in OpsOf(r)

\* the region had no default VPC when the run began
NoDefaultVpc(r) ==
  LET a == cloud0[r].attribs
  IN  \/ Len(a) = 0
      \/ Len(a[1].AttributeValues) = 0
      \/ a[1].AttributeValues[1].AttributeValue = NoneVpc

HasMainAssociation(rtb) ==
  \E i \in DOMAIN rtb.Associations : rtb.Associations[i].Main

\* the claim of C4 without the outcome: no deleter and no detach/delete call in
\* a region without a default VPC
NoCallsWithoutVpc ==
  \A r \in Regions :
    NoDefaultVpc(r) => OpsOf(r) \cap (MutatingOps \cup DeleterListOps) = {}

----------------------------------------------------------------------------
\* C1: once the network-interface query of a region has returned at least one
\* interface, the processing of that region has ended by returning, no deleter
\* has listed anything and no detach/delete call, delete_vpc included, is issued.
C1_InUseVpcUntouched ==
  \A r \in Regions :
    Len(eni[r]) > 0 =>
      /\ pc[r] = Returned
      /\ result[r] = "skipped-in-use"
      /\ OpsOf(r) \cap (MutatingOps \cup DeleterListOps) = {}

\* a default VPC full of resources, left alone because of an interface
C1_Witness ==
  \E r \in Regions :
    /\ Len(eni[r]) > 0
    /\ Len(FilterVpc(cloud0[r].subs, vpc_id[r])) > 0
    /\ pcMain \in {"done", "raised"}

\* C2: no delete_route_table call is made for a route table that has an
\* association marked Main, wherever in the association list it stands.
C2_MainRouteTableKept ==
  \A r \in Regions :
    \A t \in Range(cloud0[r].rtbs) :
      (t.VpcId = vpc_id[r] /\ HasMainAssociation(t))
        => t.RouteTableId \notin Targets(r, "delete_route_table")

\* position of a mutating call in the order of the teardown
StageRank(op) ==
  CASE op = "detach_internet_gateway" -> 1
    [] op = "delete_internet_gateway" -> 2
    [] op = "delete_subnet"           -> 3
    [] op = "delete_route_table"      -> 4
    [] op = "delete_network_acl"      -> 5
    [] op = "delete_security_group"   -> 6
    [] op = "delete_vpc"              -> 7

\* C3: the mutating calls of a region come in the order internet gateway
\* (detach, delete), subnets, route tables, network ACLs, security groups,
\* delete_vpc; delete_vpc is issued at most once and nothing follows it.
C3_StageOrder ==
  \A r \in Regions :
    LET m == MutatingCalls(r)
    IN  \A i, j \in DOMAIN m :
          i < j => /\ StageRank(m[i].op) <= StageRank(m[j].op)
                   /\ m[i].op # "delete_vpc"

\* a teardown that issued calls of every stage
C3_Witness ==
  \E r \in Regions : OpsOf(r) \cap MutatingOps = MutatingOps

\* C4: a region whose default-vpc attribute is absent (no attribute, no value)
\* or reads "none" ends as skipped-no-vpc, with no deleter invoked and no
\* detach/delete call issued.
C4_NoVpcSkipped ==
  \A r \in Regions :
    (NoDefaultVpc(r) /\ "describe_account_attributes" \in OpsOf(r)
       /\ ~CloudFails(r, "describe_account_attributes", NoId))
      => /\ Ended(r)
         /\ result[r] = "skipped-no-vpc"
         /\ OpsOf(r) \cap (MutatingOps \cup DeleterListOps) = {}

TrueFlags == {"True", "true", "1"}

\* C6: a run of remove_vpc.py given a true dry-run flag as second argument
\* executes with dryrun = True and issues no mutating call.
C6_TrueFlagIsDryRun ==
  (variant = V2 /\ pcMain # "init" /\ Len(argv) = 3 /\ argv[3].val \in TrueFlags)
    => /\ dryrun = "True"
       /\ \A r \in Regions : OpsOf(r) \cap MutatingOps = {}

\* the first internet gateway listed for the region's VPC, if any
FirstIgw(r) ==
  LET l == FilterVpc(cloud0[r].igws, vpc_id[r])
  IN  IF Len(l) = 0 THEN {} ELSE {l[1].InternetGatewayId}

\* the resources of the region's VPC that no rule protects
OpenIds(r, op) ==
  LET c == cloud0[r]
      v == vpc_id[r]
  IN  CASE op = "detach_internet_gateway" -> FirstIgw(r)
        [] op = "delete_internet_gateway" -> FirstIgw(r)
        [] op = "delete_subnet" ->
             {x.SubnetId : x \in {y \in Range(c.subs) : y.VpcId = v}}
        [] op = "delete_route_table" ->
             {x.RouteTableId : x \in {y \in Range(c.rtbs) :
                                        y.VpcId = v /\ ~HasMainAssociation(y)}}
        [] op = "delete_network_acl" ->
             {x.NetworkAclId : x \in {y \in Range(c.acls) :
                                        y.VpcId = v /\ ~y.IsDefault}}
        [] op = "delete_security_group" ->
             {x.GroupId : x \in {y \in Range(c.sgps) :
                                   y.VpcId = v /\ y.GroupName # "default"}}
        [] op = "delete_vpc" -> {NoId}

NoListFault(r) == \A op \in DeleterListOps : ~CloudFails(r, op, NoId)

\* C7: in a region past the safety gate, a ClientError of a detach or delete
\* call never ends the processing: no exception leaves it right after such a
\* call, and, the list calls working, the processing ends completed with a
\* call made for every unprotected resource of every kind and for the VPC,
\* whichever of those calls the provider rejected.
C7_DeleteErrorsDoNotStop ==
  \A r \in Regions :
    /\ (pc[r] = Raised /\ Len(calls[r]) > 0)
         => calls[r][Len(calls[r])].op \notin MutatingOps
    /\ (GatePassed(r) /\ Ended(r) /\ NoListFault(r))
         => /\ result[r] = "completed"
            /\ \A op \in MutatingOps : OpenIds(r, op) \subseteq Targets(r, op)

\* the first subnet's delete was rejected; the second subnet, the later kinds
\* and the VPC were still called for
C7_Witness ==
  \E r \in Regions :
    /\ CloudFails(r, "delete_subnet", 1)
    /\ {1, 2} \subseteq Targets(r, "delete_subnet")
    /\ Targets(r, "delete_security_group") # {}
    /\ "delete_vpc" \in OpsOf(r)
    /\ result[r] = "completed"

\* C9: delete_internet_gateway follows a detach_internet_gateway call for the
\* same gateway and the region's VPC, the gateway being the one listed as
\* attached to that VPC; without a listed gateway neither call is issued.
C9_DetachBeforeDelete ==
  \A r \in Regions :
    /\ \A j \in DOMAIN calls[r] :
         calls[r][j].op = "delete_internet_gateway"
           => \E i \in 1..(j - 1) :
                calls[r][i] = Call("detach_internet_gateway", calls[r][j].id, vpc_id[r])
    /\ Targets(r, "detach_internet_gateway") \cup Targets(r, "delete_internet_gateway")
         \subseteq FirstIgw(r)

\* a gateway detached and deleted in a region that holds a second gateway
C9_Witness ==
  \E r \in Regions :
    /\ Targets(r, "delete_internet_gateway") # {}
    /\ Len(cloud0[r].igws) > 1

\* the ids a deleter targeted are those of the one unprotected resource, when
\* the VPC holds one protected and one unprotected resource of the kind
OnlyTheOpen(r, op, protected) ==
  (Cardinality(protected) = 1 /\ Cardinality(OpenIds(r, op)) = 1)
    => Targets(r, op) = OpenIds(r, op)

\* C10: no delete_network_acl is issued for an ACL with IsDefault true and no
\* delete_security_group for a group named "default"; of one protected and one
\* unprotected resource exactly the unprotected one is targeted.
C10_DefaultsKept ==
  \A r \in Regions :
    LET dacl == {x.NetworkAclId : x \in {y \in Range(cloud0[r].acls) :
                                           y.VpcId = vpc_id[r] /\ y.IsDefault}}
        dsgp == {x.GroupId : x \in {y \in Range(cloud0[r].sgps) :
                                      y.VpcId = vpc_id[r] /\ y.GroupName = "default"}}
    IN  /\ Targets(r, "delete_network_acl") \cap dacl = {}
        /\ Targets(r, "delete_security_group") \cap dsgp = {}
        /\ result[r] = "completed"
             => /\ OnlyTheOpen(r, "delete_network_acl", dacl)
                /\ OnlyTheOpen(r, "delete_security_group", dsgp)

\* the default ACL listed after the custom one, the default group before it
C10_Witness ==
  \E r \in Regions :
    /\ result[r] = "completed"
    /\ cloud0[r].acls = <<Acl(1, D, FALSE), Acl(2, D, TRUE)>>
    /\ cloud0[r].sgps = <<Sgp(1, D, "default"), Sgp(2, D, "custom")>>
    /\ Targets(r, "delete_network_acl") = {1}
    /\ Targets(r, "delete_security_group") = {2}

----------------------------------------------------------------------------
\* The claims about a second run, failures of the queries, and the frame

\* the run before this one was one in which the provider accepted every call
\* of region r, delete_vpc among them, so the attribute now reads "none"
CleanFirstPass(r) ==
  /\ run = 2
  /\ \E i \in DOMAIN prev.calls[r] : prev.calls[r][i].op = "delete_vpc"
  /\ \A i \in DOMAIN prev.calls[r] :
       <<prev.calls[r][i].op, prev.calls[r][i].id>> \notin faults[r]
  /\ cloud0[r].attribs = AttrOf(NoneVpc)

\* C11: a second processing of a region after a first pass in which every call
\* succeeded and the default VPC was deleted issues no mutating call and
\* leaves the cloud as it found it.
C11_SecondPassIdle ==
  \A r \in Regions :
    CleanFirstPass(r) => /\ OpsOf(r) \cap MutatingOps = {}
                         /\ cloud[r] = cloud0[r]

\* the second run has read the attribute and ended, the first had deleted
\* subnets and the VPC
C11_Witness ==
  \E r \in Regions :
    /\ CleanFirstPass(r)
    /\ result[r] = "skipped-no-vpc"
    /\ pcMain = "done"
    /\ \E i \in DOMAIN prev.calls[r] : prev.calls[r][i].op = "delete_subnet"

\* C12: a failure of opening the region client or of the default-VPC attribute
\* query does not leave the region processor as an exception: the processor
\* returns with the region failed and has issued no delete call.
C12_AttributeFailureContained ==
  \A r \in Regions :
    (Ended(r) /\ (\/ CloudFails(r, "client", NoId)
                  \/ CloudFails(r, "describe_account_attributes", NoId)))
      => /\ pc[r] = Returned
         /\ result[r] = "failed"
         /\ OpsOf(r) \cap MutatingOps = {}

\* C14: in a region past the safety gate, a failed list call of one kind leaves
\* the later deleters invoked and delete_vpc attempted.
C14_ListFailureContained ==
  \A r \in Regions :
    (GatePassed(r) /\ Ended(r) /\ ~NoListFault(r))
      => /\ pc[r] = Returned
         /\ result[r] = "completed"
         /\ DeleterListOps \subseteq OpsOf(r)
         /\ "delete_vpc" \in OpsOf(r)

\* C15: a failed network-interface query ends the processing of the region:
\* no deleter lists anything and no detach/delete call is issued.
C15_GateFailureStops ==
  \A r \in Regions :
    (CloudFails(r, "describe_network_interfaces", NoId)
       /\ "describe_network_interfaces" \in OpsOf(r))
      => /\ Ended(r)
         /\ result[r] = "failed"
         /\ OpsOf(r) \cap (MutatingOps \cup DeleterListOps) = {}

\* the query failed in a run over a default VPC that holds subnets
C15_Witness ==
  \E r \in Regions :
    /\ CloudFails(r, "describe_network_interfaces", NoId)
    /\ "describe_network_interfaces" \in OpsOf(r)
    /\ Len(FilterVpc(cloud0[r].subs, vpc_id[r])) > 0
    /\ pcMain = "done"

\* the ids of the delete_network_acl calls of a region, in order
AclDeletes(r) ==
  LET m == SelectSeq(calls[r], LAMBDA c : c.op = "delete_network_acl")
  IN  [i \in DOMAIN m |-> m[i].id]

\* the ids of the non-default ACLs of the region's VPC, in listing order
OpenAcls(r) ==
  LET l == SelectSeq(cloud0[r].acls, LAMBDA x : x.VpcId = vpc_id[r] /\ ~x.IsDefault)
  IN  [i \in DOMAIN l |-> l[i].NetworkAclId]

\* C16 as claimed: one invocation of delete_acls issues at most one
\* delete_network_acl call.
C16_AtMostOneAclDelete ==
  \A r \in Regions : Len(AclDeletes(r)) <= 1

\* C16 amended: delete_acls issues one delete_network_acl call for each
\* non-default ACL of the listing, in listing order, and for no other.
C16_EveryOpenAclOnce ==
  \A r \in Regions :
    /\ Len(AclDeletes(r)) <= Len(OpenAcls(r))
    /\ AclDeletes(r) = SubSeq(OpenAcls(r), 1, Len(AclDeletes(r)))
    /\ "describe_security_groups" \in OpsOf(r) => AclDeletes(r) = OpenAcls(r)

\* two non-default ACLs, both called for, and delete_acls has returned
C16_Witness ==
  \E r \in Regions :
    /\ Len(AclDeletes(r)) > 1
    /\ "describe_security_groups" \in OpsOf(r)

Reported(r) == \E i \in DOMAIN out[r] : out[r][i].msg = "has been deleted"

\* C17: a region is reported as deleted only if a delete_vpc call was issued
\* for it and returned without error.
C17_ReportedOnlyIfDeleted ==
  \A r \in Regions :
    Reported(r) => /\ "delete_vpc" \in OpsOf(r)
                   /\ ~CloudFails(r, "delete_vpc", NoId)

\* delete_vpc was called and rejected, and the region is not reported
C17_Witness ==
  \E r \in Regions :
    /\ "delete_vpc" \in OpsOf(r)
    /\ CloudFails(r, "delete_vpc", NoId)
    /\ result[r] = "completed"
    /\ ~Reported(r)

\* the ids of the resources of one kind the region's VPC held at the start
OwnIds(r, op) ==
  LET c == cloud0[r]
      v == vpc_id[r]
  IN  CASE op \in {"detach_internet_gateway", "delete_internet_gateway"} ->
             {x.InternetGatewayId : x \in {y \in Range(c.igws) : y.VpcId = v}}
        [] op = "delete_subnet" ->
             {x.SubnetId : x \in {y \in Range(c.subs) : y.VpcId = v}}
        [] op = "delete_route_table" ->
             {x.RouteTableId : x \in {y \in Range(c.rtbs) : y.VpcId = v}}
        [] op = "delete_network_acl" ->
             {x.NetworkAclId : x \in {y \in Range(c.acls) : y.VpcId = v}}
        [] op = "delete_security_group" ->
             {x.GroupId : x \in {y \in Range(c.sgps) : y.VpcId = v}}

\* what the region held for other VPCs at the start is still there, unchanged
OthersKept(r) ==
  LET kept(was, is) == \A x \in Range(was) : x.VpcId # vpc_id[r] => x \in Range(is)
  IN  /\ kept(cloud0[r].enis, cloud[r].enis)
      /\ kept(cloud0[r].igws, cloud[r].igws)
      /\ kept(cloud0[r].subs, cloud[r].subs)
      /\ kept(cloud0[r].rtbs, cloud[r].rtbs)
      /\ kept(cloud0[r].acls, cloud[r].acls)
      /\ kept(cloud0[r].sgps, cloud[r].sgps)

\* C19: a mutating call targets the VPC whose id the default-vpc attribute
\* gave, or a resource of that VPC; what other VPCs of the region hold, and
\* the regions that are not processed, stay as they were.
C19_OnlyOwnVpcTouched ==
  \A r \in Regions :
    /\ \A i \in DOMAIN calls[r] :
         LET c == calls[r][i]
         IN  c.op \in MutatingOps =>
               /\ vpc_id[r] = cloud0[r].attribs[1].AttributeValues[1].AttributeValue
               /\ IF c.op = "delete_vpc" THEN c.vpc = vpc_id[r]
                                         ELSE c.id \in OwnIds(r, c.op)
               /\ c.op = "detach_internet_gateway" => c.vpc = vpc_id[r]
    /\ OthersKept(r)
    /\ r # UsWest2 => (cloud[r] = cloud0[r] /\ calls[r] = <<>>)

\* the VPC's subnet deleted next to another VPC's subnet, and a region that the
\* run does not process
C19_Witness ==
  \E r \in Regions :
    /\ result[r] = "completed"
    /\ \E x \in Range(cloud0[r].subs) : x.VpcId = O
    /\ \E y \in Range(cloud0[r].subs) : y.VpcId = D /\ y \notin Range(cloud[r].subs)
    /\ \E q \in Regions : q # r /\ Len(cloud[q].subs) > 0

====
